---- MODULE Spec2Model ----
(***************************************************************************)
(* A model of the ApeWisdom client (src/apewis.py) and of the Streamlit    *)
(* dashboard script (src/stonks.py).                                       *)
(*                                                                         *)
(*   SpecNorm   one result row is turned into a StockMention               *)
(*   SpecSweep  get_all_mentions pages through the remote API              *)
(*   SpecRate   get_mentions is called repeatedly under a clock            *)
(*   SpecDash   the dashboard script is re-run by Streamlit                *)
(***************************************************************************)
EXTENDS Integers, Sequences, FiniteSets, TLC

VARIABLES
    \* ---- normalisation of one row (apewis.py 56-67)
    nrow,               \* the raw result row (a dict of the JSON response)
    nout,               \* outcome of building the StockMention
    npc,                \* "start" | "done"
    \* ---- ApeWisdomAPI instance and the clock (apewis.py 19-39)
    now,                \* time.time(), in ticks
    rate_limit,         \* self.rate_limit
    last_request_time,  \* self.last_request_time
    rpc,                \* "idle" | "inflight": position of the sequential caller
    ncalls,             \* number of get_mentions calls made so far
    current_time,       \* local current_time of the latest _rate_limit_wait
    slept,              \* length of the sleep of the latest _rate_limit_wait
    prevStamp,          \* last_request_time before the latest _rate_limit_wait
    curStart,           \* clock reading when the latest HTTP request was issued
    curEnd,             \* clock reading when the latest HTTP request ended
    prevStart,          \* the same for the request before it
    prevEnd,
    prevOutcome,        \* "none" | "ok" | "raised": how the request before it ended
    lastOutcome,        \* how the latest request ended ("none" while in flight)
    \* ---- get_all_mentions (apewis.py 49-76)
    page,               \* local variable page
    all_mentions,       \* local variable all_mentions
    spc,                \* "loop" | "returned" | "raised"
    result,             \* what the caller receives when spc = "returned"
    err,                \* what the caller receives when spc = "raised"
    requests,           \* the requests issued, in order: page number and outcome
    fetched,            \* the raw rows of the pages received, in order received
    pagesSeen,          \* the `pages` value of each response received
    \* ---- dashboard script (stonks.py 229-338)
    shown,              \* elements on the page after the latest script run
    cycles              \* outcome of each script run so far

rateVars  == <<now, rate_limit, last_request_time, rpc, ncalls, current_time, slept, prevStamp,
               curStart, curEnd, prevStart, prevEnd, prevOutcome, lastOutcome>>
normVars  == <<nrow, nout, npc>>
sweepVars == <<page, all_mentions, spc, result, err, requests, fetched, pagesSeen>>
dashVars  == <<shown, cycles>>
vars      == <<normVars, rateVars, sweepVars, dashVars>>

(***************************************************************************)
(* Bounds of the model.                                                    *)
(***************************************************************************)
MaxStrLen   == 2    \* longest string tried in a numeric field
MaxRate     == 2    \* largest rate_limit tried
MaxInitNow  == 2    \* latest clock reading at construction
MaxTime     == 7    \* the clock stops here
MaxJitter   == 1    \* longest time a sleep may overrun
MaxCalls    == 3    \* get_mentions calls per run of SpecRate
MaxPages    == 3    \* largest `pages` value the remote reports
MaxCycles   == 3    \* runs of the dashboard script

(***************************************************************************)
(* JSON values: None, an integer, or a string (a sequence of characters).  *)
(***************************************************************************)
NoneV      == [k |-> "null", v |-> 0, s |-> <<>>]
IntV(n)    == [k |-> "int",  v |-> n, s |-> <<>>]
StrV(str)  == [k |-> "str",  v |-> 0, s |-> str]
\* an exception leaving a conversion
RaiseV     == [k |-> "raise", v |-> 0, s |-> <<>>]

Digits == <<"0", "1", "2", "3", "4", "5", "6", "7", "8", "9">>
IsDigit(c)  == \E i \in 1..10 : Digits[i] = c
DigitVal(c) == (CHOOSE i \in 1..10 : Digits[i] = c) - 1
IsSpace(c)  == c = " "

RECURSIVE LStrip(_)
LStrip(str) == IF str # <<>> /\ IsSpace(Head(str)) THEN LStrip(Tail(str)) ELSE str

RECURSIVE RStrip(_)
RStrip(str) ==
    IF str # <<>> /\ IsSpace(str[Len(str)])
    THEN RStrip(SubSeq(str, 1, Len(str) - 1))
    ELSE str

\* the digit part of an integer literal: digits, single underscores between digits
IsDigitPart(t) ==
    /\ t # <<>>
    /\ IsDigit(t[1])
    /\ IsDigit(t[Len(t)])
    /\ \A i \in 1..Len(t) : IsDigit(t[i]) \/ t[i] = "_"
    /\ \A i \in 1..(Len(t) - 1) : ~(t[i] = "_" /\ t[i + 1] = "_")

RECURSIVE DigitPartValue(_, _)
DigitPartValue(t, acc) ==
    IF t = <<>> THEN acc
    ELSE IF Head(t) = "_" THEN DigitPartValue(Tail(t), acc)
    ELSE DigitPartValue(Tail(t), 10 * acc + DigitVal(Head(t)))

\* Python's int(str): surrounding whitespace, an optional sign, base-10 digits.
\* [ok |-> FALSE] stands for ValueError.
IntOfStr(str) ==
    LET t    == RStrip(LStrip(str))
        sign == IF t # <<>> /\ Head(t) = "-" THEN -1 ELSE 1
        body == IF t # <<>> /\ Head(t) \in {"-", "+"} THEN Tail(t) ELSE t
    IN  IF IsDigitPart(body)
        THEN [ok |-> TRUE, v |-> sign * DigitPartValue(body, 0)]
        ELSE [ok |-> FALSE, v |-> 0]

\* a conversion that lets ValueError escape
SafeIntConvertNoCatch(value) ==
    IF value.k = "null" THEN NoneV
    ELSE IF value.k = "int" THEN IntV(value.v)
    ELSE IF IntOfStr(value.s).ok THEN IntV(IntOfStr(value.s).v) ELSE RaiseV

\* ApeWisdomAPI._safe_int_convert
SafeIntConvert(value) ==
    IF value.k = "null" THEN NoneV
    ELSE IF value.k = "int" THEN IntV(value.v)
    ELSE IF IntOfStr(value.s).ok THEN IntV(IntOfStr(value.s).v) ELSE NoneV

\* Python's `x or 0` for x an Optional[int] (or an escaping exception)
OrZero(x) == IF x.k = "raise" THEN x ELSE IF x.k = "null" \/ x.v = 0 THEN IntV(0) ELSE x

IdentityFields == <<"rank", "ticker", "name">>
NumericFields  == <<"mentions", "upvotes", "rank_24h_ago", "mentions_24h_ago">>
Fields         == IdentityFields \o NumericFields

\* result[f] for each field in the order the constructor call evaluates them;
\* the first missing key raises KeyError
FirstMissing(row) ==
    IF \E i \in 1..Len(Fields) : Fields[i] \notin DOMAIN row
    THEN Fields[CHOOSE i \in 1..Len(Fields) :
                 /\ Fields[i] \notin DOMAIN row
                 /\ \A j \in 1..(i - 1) : Fields[j] \in DOMAIN row]
    ELSE "none"

NoMention == [rank |-> NoneV, ticker |-> NoneV, name |-> NoneV,
              mentions |-> NoneV, upvotes |-> NoneV,
              rank_24h_ago |-> NoneV, mentions_24h_ago |-> NoneV]

\* the StockMention(...) expression of the list comprehension, for one result
MakeStockMention(row) ==
    IF FirstMissing(row) # "none"
    THEN [ok |-> FALSE, err |-> "KeyError", m |-> NoMention]
    ELSE LET m == [rank             |-> row["rank"],
                   ticker           |-> row["ticker"],
                   name             |-> row["name"],
                   mentions         |-> OrZero(SafeIntConvert(row["mentions"])),
                   upvotes          |-> OrZero(SafeIntConvert(row["upvotes"])),
                   rank_24h_ago     |-> SafeIntConvert(row["rank_24h_ago"]),
                   mentions_24h_ago |-> SafeIntConvert(row["mentions_24h_ago"])]
         IN  IF \E i \in 1..Len(NumericFields) : m[NumericFields[i]].k = "raise"
             THEN [ok |-> FALSE, err |-> "ValueError", m |-> NoMention]
             ELSE [ok |-> TRUE, err |-> "none", m |-> m]

(***************************************************************************)
(* Rate limiting: ApeWisdomAPI._rate_limit_wait and get_mentions.          *)
(* The clock never runs backwards, time.sleep(d) lasts at least d, and     *)
(* time passes only in the sleep, in the HTTP request and between calls:   *)
(* the request is taken to go out at the instant last_request_time is      *)
(* stamped.                                                                *)
(***************************************************************************)
\* a wait that never sleeps
SleepForNone(cur, last, limit) == 0

\* the argument of time.sleep in _rate_limit_wait (0: no sleep)
SleepFor(cur, last, limit) ==
    IF cur - last < limit THEN limit - (cur - last) ELSE 0

\* a stamp taken from the reading made before the sleep
NewStampBeforeSleep(cur, after) == cur

\* the value stored in last_request_time: a fresh time.time() after the sleep
NewStamp(cur, after) == after

\* _rate_limit_wait: the clock moves by the sleep and by jit, the time the
\* sleep overran; the HTTP request is issued right after the stamp is taken
RateLimitWait(jit) ==
    LET d     == SleepFor(now, last_request_time, rate_limit)
        after == now + d + jit
    IN  /\ current_time' = now
        /\ slept' = d
        /\ now' = after
        /\ prevStamp' = last_request_time
        /\ last_request_time' = NewStamp(now, after)

\* get_mentions up to requests.get: the wait, then the request goes out
Call(jit) ==
    /\ rpc = "idle"
    /\ ncalls < MaxCalls
    /\ now + SleepFor(now, last_request_time, rate_limit) + jit <= MaxTime
    /\ RateLimitWait(jit)
    /\ rpc' = "inflight"
    /\ ncalls' = ncalls + 1
    /\ prevStart' = curStart
    /\ prevEnd' = curEnd
    /\ prevOutcome' = lastOutcome
    /\ curStart' = now'
    /\ curEnd' = now'
    /\ lastOutcome' = "none"
    /\ UNCHANGED <<rate_limit, normVars, sweepVars, dashVars>>

\* time passes while the request is in flight or the caller is between calls
Tick ==
    /\ now < MaxTime
    /\ now' = now + 1
    /\ UNCHANGED <<rate_limit, last_request_time, rpc, ncalls, current_time, slept,
                   prevStamp, curStart, curEnd, prevStart, prevEnd, prevOutcome,
                   lastOutcome, normVars, sweepVars, dashVars>>

\* requests.get, raise_for_status and json() succeed: get_mentions returns
RespondOk ==
    /\ rpc = "inflight"
    /\ rpc' = "idle"
    /\ curEnd' = now
    /\ lastOutcome' = "ok"
    /\ UNCHANGED <<now, rate_limit, last_request_time, ncalls, current_time, slept,
                   prevStamp, curStart, prevStart, prevEnd, prevOutcome,
                   normVars, sweepVars, dashVars>>

\* a RequestException: get_mentions raises Exception("API request failed: ...")
RespondFail ==
    /\ rpc = "inflight"
    /\ rpc' = "idle"
    /\ curEnd' = now
    /\ lastOutcome' = "raised"
    /\ UNCHANGED <<now, rate_limit, last_request_time, ncalls, current_time, slept,
                   prevStamp, curStart, prevStart, prevEnd, prevOutcome,
                   normVars, sweepVars, dashVars>>

(***************************************************************************)
(* Pagination: ApeWisdomAPI.get_all_mentions.                              *)
(***************************************************************************)
Drop(row, f) == [g \in (DOMAIN row) \ {f} |-> row[g]]

RowA == [rank |-> IntV(1), ticker |-> StrV(<<"G">>), name |-> StrV(<<"g">>),
         mentions |-> IntV(5), upvotes |-> StrV(<<"1", "2">>),
         rank_24h_ago |-> NoneV, mentions_24h_ago |-> StrV(<<"a">>)]
RowB == [rank |-> IntV(2), ticker |-> StrV(<<"T">>), name |-> StrV(<<"t">>),
         mentions |-> StrV(<<"-", "3">>), upvotes |-> IntV(-1),
         rank_24h_ago |-> StrV(<<"1">>), mentions_24h_ago |-> IntV(4)]

SeqsUpTo(S, n) == UNION {[1..m -> S] : m \in 0..n}

\* the `results` lists the remote may answer with: rows as documented, and
\* rows that lack rank, ticker or name
ResultLists ==
    { <<>>, <<RowA>>, <<RowA, RowB>>, <<RowB, RowA, RowA>>,
      <<Drop(RowA, "ticker")>>,
      <<RowA, Drop(RowB, "rank"), RowB>>,
      <<RowB, Drop(RowA, "name")>> }

\* the JSON bodies the remote may answer with
Responses == [results : ResultLists, pages : 0..MaxPages]
EmptyData == [results |-> <<>>, pages |-> 0]
HttpOutcomes == {[ok |-> FALSE, data |-> EmptyData]}
                    \cup {[ok |-> TRUE, data |-> d] : d \in Responses}

\* a get_mentions that swallows the failure and answers with an empty page
GetMentionsSwallow(http) == [raised |-> FALSE, data |-> http.data]

\* get_mentions after the wait: the parsed body, or the exception re-raised
GetMentions(http) ==
    IF http.ok THEN [raised |-> FALSE, data |-> http.data]
    ELSE [raised |-> TRUE, data |-> EmptyData]

\* the list comprehension over data["results"]: the first row that raises
\* ends it
PageMentions(results) ==
    IF \E i \in 1..Len(results) : ~MakeStockMention(results[i]).ok
    THEN [ok |-> FALSE,
          err |-> MakeStockMention(results[
                      CHOOSE i \in 1..Len(results) :
                          /\ ~MakeStockMention(results[i]).ok
                          /\ \A j \in 1..(i - 1) : MakeStockMention(results[j]).ok]).err,
          ms |-> <<>>]
    ELSE [ok |-> TRUE, err |-> "none",
          ms |-> [i \in 1..Len(results) |-> MakeStockMention(results[i]).m]]

\* an extend that puts the new page first
ExtendFront(all, ms) == ms \o all

\* all_mentions.extend(mentions)
Extend(all, ms) == all \o ms

\* a test that stops only on the exact page
LastPageExact(p, pages) == p = pages

\* a test against the bound the first page reported
LastPageFirstBound(p, pages) == p >= (IF pagesSeen = <<>> THEN pages ELSE pagesSeen[1])

\* the loop's exit test
LastPage(p, pages) == p >= pages

\* the api object's state as get_mentions leaves it inside the sweep
SweepWait ==
    /\ RateLimitWait(0)
    /\ UNCHANGED <<rate_limit, rpc, ncalls, curStart, curEnd, prevStart, prevEnd,
                   prevOutcome, lastOutcome>>

\* one iteration of the while loop
Fetch(http) ==
    /\ spc = "loop"
    /\ SweepWait
    /\ requests' = Append(requests, [page |-> page, ok |-> http.ok])
    /\ LET got == GetMentions(http)
           pm  == PageMentions(got.data.results)
       IN  IF got.raised
           THEN /\ spc' = "raised"
                /\ err' = "Exception"
                /\ all_mentions' = <<>>
                /\ UNCHANGED <<page, result, fetched, pagesSeen>>
           ELSE /\ fetched' = fetched \o got.data.results
                /\ pagesSeen' = Append(pagesSeen, got.data.pages)
                /\ IF ~pm.ok
                   THEN /\ spc' = "raised"
                        /\ err' = pm.err
                        /\ all_mentions' = <<>>
                        /\ UNCHANGED <<page, result>>
                   ELSE /\ all_mentions' = Extend(all_mentions, pm.ms)
                        /\ err' = "none"
                        /\ IF LastPage(page, got.data.pages)
                           THEN /\ spc' = "returned"
                                /\ result' = all_mentions'
                                /\ page' = page
                           ELSE /\ spc' = "loop"
                                /\ result' = result
                                /\ page' = page + 1
    /\ UNCHANGED <<normVars, dashVars>>

FetchPage == \E http \in HttpOutcomes : Fetch(http)

(***************************************************************************)
(* Normalisation of one row.                                               *)
(***************************************************************************)
Alphabet == {"1", "2", "-", "a", " "}
Strings  == SeqsUpTo(Alphabet, MaxStrLen)
Values   == {NoneV} \cup {IntV(n) : n \in {-3, 0, 7}} \cup {StrV(str) : str \in Strings}
FewValues == {NoneV, IntV(7), StrV(<<"a", "b", "c">>)}

\* rows with every value in mentions, and rows with every value in
\* mentions_24h_ago
NormRows ==
    {[rank |-> IntV(1), ticker |-> StrV(<<"G">>), name |-> StrV(<<"g">>),
      mentions |-> a, upvotes |-> b, rank_24h_ago |-> c, mentions_24h_ago |-> d] :
         a \in Values, b \in FewValues, c \in FewValues, d \in FewValues}
    \cup
    {[rank |-> IntV(1), ticker |-> StrV(<<"G">>), name |-> StrV(<<"g">>),
      mentions |-> a, upvotes |-> b, rank_24h_ago |-> c, mentions_24h_ago |-> d] :
         a \in FewValues, b \in FewValues, c \in FewValues, d \in Values}

Normalize ==
    /\ npc = "start"
    /\ nout' = MakeStockMention(nrow)
    /\ npc' = "done"
    /\ UNCHANGED <<nrow, rateVars, sweepVars, dashVars>>

(***************************************************************************)
(* The dashboard script: one run of main() per Streamlit rerun.            *)
(***************************************************************************)
ErrorElem     == [kind |-> "error", data |-> 0, n |-> 0]
UpdatedElem   == [kind |-> "last_updated", data |-> 0, n |-> 0]
Chart(d, i)   == [kind |-> "chart", data |-> d, n |-> i]
NCharts       == 4
\* the bodies the remote may serve the dashboard
Payloads      == {1, 2}

\* an except branch that leaves the earlier output on the page
OnFetchErrorKeep(old) == Append(old, ErrorElem)

\* the except branch when get_mentions raised: st.error is all the run emits
OnFetchError(old) == <<ErrorElem>>

\* the try block with data d: an exception before anything is emitted
\* (k = -1), or after k of the charts, or none; the except branch adds st.error
Rendered(d, k) ==
    IF k < 0 THEN <<ErrorElem>>
    ELSE <<UpdatedElem>> \o [i \in 1..k |-> Chart(d, i)]
             \o (IF k < NCharts THEN <<ErrorElem>> ELSE <<>>)

RunFetchFailed ==
    /\ Len(cycles) < MaxCycles
    /\ shown' = OnFetchError(shown)
    /\ cycles' = Append(cycles, [fetch |-> "raised", data |-> 0, drawn |-> 0])
    /\ UNCHANGED <<normVars, rateVars, sweepVars>>

RunFetched(d, k) ==
    /\ Len(cycles) < MaxCycles
    /\ shown' = Rendered(d, k)
    /\ cycles' = Append(cycles, [fetch |-> "ok", data |-> d, drawn |-> k])
    /\ UNCHANGED <<normVars, rateVars, sweepVars>>

RunMain ==
    \/ RunFetchFailed
    \/ \E d \in Payloads, k \in (-1)..NCharts : RunFetched(d, k)

(***************************************************************************)
(* Specifications.                                                         *)
(***************************************************************************)
DefaultRateLimit == 1

NormIdle  == nrow = RowA /\ nout = MakeStockMention(RowA) /\ npc = "done"
SweepIdle == /\ page = 1 /\ all_mentions = <<>> /\ spc = "returned" /\ result = <<>>
             /\ err = "none" /\ requests = <<>> /\ fetched = <<>> /\ pagesSeen = <<>>
DashIdle  == shown = <<>> /\ cycles = <<>>
ApiFresh  == /\ last_request_time = 0 /\ rpc = "idle" /\ ncalls = 0
             /\ current_time = 0 /\ slept = 0 /\ prevStamp = 0
             /\ curStart = 0 /\ curEnd = 0 /\ prevStart = 0 /\ prevEnd = 0
             /\ prevOutcome = "none" /\ lastOutcome = "none"

InitNorm ==
    /\ nrow \in NormRows /\ nout = [ok |-> FALSE, err |-> "none", m |-> NoMention]
    /\ npc = "start"
    /\ now = 0 /\ rate_limit = DefaultRateLimit /\ ApiFresh /\ SweepIdle /\ DashIdle

InitRate ==
    /\ now \in 0..MaxInitNow /\ rate_limit \in 0..MaxRate /\ ApiFresh
    /\ NormIdle /\ SweepIdle /\ DashIdle

InitSweep ==
    /\ page = 1 /\ all_mentions = <<>> /\ spc = "loop" /\ result = <<>>
    /\ err = "none" /\ requests = <<>> /\ fetched = <<>> /\ pagesSeen = <<>>
    /\ now = 0 /\ rate_limit = DefaultRateLimit /\ ApiFresh /\ NormIdle /\ DashIdle

InitDash ==
    /\ DashIdle
    /\ now = 0 /\ rate_limit = DefaultRateLimit /\ ApiFresh /\ NormIdle /\ SweepIdle

NextNorm  == Normalize
NextRate  == Call(0) \/ (\E j \in 1..MaxJitter : Call(j)) \/ Tick \/ RespondOk \/ RespondFail
NextSweep == FetchPage
NextDash  == RunMain

SpecNorm  == InitNorm  /\ [][NextNorm]_vars
SpecRate  == InitRate  /\ [][NextRate]_vars
SpecSweep == InitSweep /\ [][NextSweep]_vars
SpecDash  == InitDash  /\ [][NextDash]_vars

Init == InitNorm \/ InitRate \/ InitSweep \/ InitDash
Next == NextNorm \/ NextRate \/ NextSweep \/ NextDash
Spec == Init /\ [][Next]_vars

(***************************************************************************)
(* Properties.                                                             *)
(***************************************************************************)
Last(sq) == sq[Len(sq)]

\* the decimal rendering of an integer
RECURSIVE RenderNat(_)
RenderNat(n) ==
    IF n < 10 THEN <<Digits[n + 1]>>
    ELSE RenderNat(n \div 10) \o <<Digits[(n % 10) + 1]>>
Render(n) == IF n < 0 THEN <<"-">> \o RenderNat(-n) ELSE RenderNat(n)
Pad(i) == [j \in 1..i |-> " "]

\* the strings tried that denote an integer (its decimal rendering, with
\* spaces around it), each with the integer
Literals ==
    {p \in {<<Pad(i) \o Render(n) \o Pad(j), n>> :
                n \in (-(10 ^ MaxStrLen))..(10 ^ MaxStrLen),
                i \in 0..MaxStrLen, j \in 0..MaxStrLen} : p[1] \in Strings}
Denotes(str)  == \E p \in Literals : p[1] = str
Denoted(str)  == (CHOOSE p \in Literals : p[1] = str)[2]

\* what a numeric field should become: the integer it denotes, else `dflt`
Expected(value, dflt) ==
    IF value.k = "int" THEN IntV(value.v)
    ELSE IF value.k = "str" /\ Denotes(value.s) THEN IntV(Denoted(value.s))
    ELSE dflt

\* C7: a row whose numeric fields are present, with any integer, string or
\* null in them, is always built without an exception; mentions and upvotes
\* are the integer denoted, or 0 when the value is null or denotes none;
\* rank_24h_ago and mentions_24h_ago are the integer denoted, or None
C7_Normalization ==
    npc = "done" =>
        /\ nout.ok
        /\ nout.m.mentions = Expected(nrow.mentions, IntV(0))
        /\ nout.m.upvotes = Expected(nrow.upvotes, IntV(0))
        /\ nout.m.rank_24h_ago = Expected(nrow.rank_24h_ago, NoneV)
        /\ nout.m.mentions_24h_ago = Expected(nrow.mentions_24h_ago, NoneV)

\* mentions "12", upvotes null, rank_24h_ago "abc" has been normalised
C7_Witness ==
    /\ npc = "done"
    /\ nrow.mentions = StrV(<<"1", "2">>)
    /\ nrow.upvotes = NoneV
    /\ nrow.rank_24h_ago = StrV(<<"a", "b", "c">>)
    /\ nout.ok
    /\ nout.m.mentions = IntV(12)
    /\ nout.m.upvotes = IntV(0)
    /\ nout.m.rank_24h_ago = NoneV

\* ---- the sweep
HasIdentity(row) == \A i \in 1..Len(IdentityFields) : IdentityFields[i] \in DOMAIN row
WellFormed(row)  == \A i \in 1..Len(Fields) : Fields[i] \in DOMAIN row
AllOk            == \A i \in 1..Len(requests) : requests[i].ok
Mentions(rows)   == [i \in 1..Len(rows) |-> MakeStockMention(rows[i]).m]

\* C2 as stated: the sweep makes exactly as many requests as the first page's
\* `pages` value, whatever later pages report
C2_BoundReadOnce ==
    (Len(pagesSeen) >= 1 /\ pagesSeen[1] >= 1) =>
        /\ Len(requests) <= pagesSeen[1]
        /\ spc = "returned" => Len(requests) = pagesSeen[1]

\* C2 (amended): the bound is re-read on every page: page p + 1 is requested
\* only if the response for page p reported pages > p, the sweep returns after
\* the first page p whose response reports pages <= p, and it makes exactly k
\* requests when every response reports the same pages value k >= 1
C2_BoundReadPerPage ==
    /\ \A i \in 1..(Len(pagesSeen) - 1) : pagesSeen[i] > i
    /\ spc = "loop" /\ pagesSeen # <<>> => Last(pagesSeen) > Len(pagesSeen)
    /\ spc = "returned" =>
          /\ Len(requests) = Len(pagesSeen)
          /\ Last(pagesSeen) <= Len(pagesSeen)
          /\ (pagesSeen[1] >= 1 /\ \A i \in 1..Len(pagesSeen) : pagesSeen[i] = pagesSeen[1])
                => Len(requests) = pagesSeen[1]

\* page 1 reported 3 pages, page 2 reported 2: the sweep returned after two
C2_Witness ==
    spc = "returned" /\ pagesSeen = <<3, 2>> /\ Len(requests) = 2

\* C3: pages are requested in the order 1, 2, ..., each once; a sweep whose
\* requests all succeed on rows that have their fields returns, and what it
\* returns is the rows of the pages fetched, in page order and in the order
\* within the page, as many as were received
C3_Concatenation ==
    /\ \A i \in 1..Len(requests) : requests[i].page = i
    /\ (spc # "loop" /\ AllOk /\ \A i \in 1..Len(fetched) : WellFormed(fetched[i]))
          => spc = "returned"
    /\ spc = "returned" =>
          /\ AllOk
          /\ Len(result) = Len(fetched)
          /\ result = Mentions(fetched)
          /\ \A i \in 1..Len(result) : result[i].rank = fetched[i]["rank"]

\* a sweep of two pages or more has returned at least three rows, not all alike
C3_Witness ==
    /\ spc = "returned"
    /\ Len(requests) >= 2
    /\ Len(result) >= 3
    /\ result[1] # result[2]

\* C4: once a page request has failed the sweep has ended by raising that
\* failure, the failed request is the last request made, and no row of the
\* pages fetched before it reaches the caller
C4_FailurePropagates ==
    (\E i \in 1..Len(requests) : ~requests[i].ok) =>
        /\ spc = "raised"
        /\ err = "Exception"
        /\ ~Last(requests).ok
        /\ \A i \in 1..(Len(requests) - 1) : requests[i].ok
        /\ result = <<>>
        /\ all_mentions = <<>>

\* page 1 was fetched with rows, the request for page 2 failed
C4_Witness ==
    /\ Len(requests) = 2
    /\ requests[1].ok
    /\ ~requests[2].ok
    /\ Len(fetched) >= 1
    /\ spc = "raised"

\* C6 as stated: a row without rank, ticker or name is dropped and the sweep
\* returns every other row
C6_BadRowDropped ==
    (spc # "loop" /\ AllOk) =>
        /\ spc = "returned"
        /\ result = Mentions(SelectSeq(fetched, HasIdentity))

\* C8: when the first page reports pages <= 1 the sweep ends after that one
\* request and, its rows having their fields, returns exactly that page's rows
C8_SinglePage ==
    (Len(pagesSeen) >= 1 /\ pagesSeen[1] <= 1) =>
        /\ Len(requests) = 1
        /\ Len(pagesSeen) = 1
        /\ spc # "loop"
        /\ (\A i \in 1..Len(fetched) : WellFormed(fetched[i])) => spc = "returned"
        /\ spc = "returned" => result = Mentions(fetched)

\* the first page reported pages = 0 and carried two rows, which were returned
C8_Witness ==
    /\ pagesSeen = <<0>>
    /\ spc = "returned"
    /\ Len(requests) = 1
    /\ Len(result) = 2

\* C9 as stated: every StockMention returned has mentions >= 0 and upvotes >= 0
C9_NonNegative ==
    spc = "returned" =>
        \A i \in 1..Len(result) : result[i].mentions.v >= 0 /\ result[i].upvotes.v >= 0

\* ---- the rate limit
\* C1 as stated: a request starts at least rate_limit after the end of the
\* request before it
C1_EndToStart ==
    ncalls >= 2 => curStart - prevEnd >= rate_limit

\* C1 (amended): a request starts at least rate_limit, less the duration of
\* the request before it, after that request ended, whether it succeeded or
\* raised
C1_EndToStartLessDuration ==
    ncalls >= 2 =>
        /\ curStart - prevEnd >= rate_limit - (prevEnd - prevStart)
        /\ curStart >= prevEnd

\* a request that raised was followed by a sleep and a request that started
\* less than rate_limit after it ended
C1_Witness ==
    /\ ncalls >= 2
    /\ prevOutcome = "raised"
    /\ slept > 0
    /\ prevEnd > prevStart
    /\ curStart - prevEnd < rate_limit

\* C10 as stated: consecutive requests start at least rate_limit apart,
\* last_request_time never decreases, the first call does not sleep
C10_StartToStart ==
    /\ ncalls >= 2 => curStart - prevStart >= rate_limit
    /\ last_request_time >= prevStamp
    /\ ncalls = 1 => slept = 0

\* C10 (amended): as stated, except that the first call does not sleep when
\* the clock reads at least rate_limit at that call (last_request_time starts
\* at 0, so an earlier reading is taken for a recent request)
C10_StartToStartLateClock ==
    /\ ncalls >= 2 => curStart - prevStart >= rate_limit
    /\ ncalls >= 1 => last_request_time = curStart
    /\ last_request_time >= prevStamp
    /\ (ncalls = 1 /\ current_time >= rate_limit) => slept = 0
    /\ (ncalls = 1 /\ current_time < rate_limit) => slept = rate_limit - current_time

\* the second request followed a failed one after a sleep that ended as the
\* clock reached the first request's start plus rate_limit
C10_Witness ==
    /\ ncalls = 2
    /\ prevOutcome = "raised"
    /\ slept > 0
    /\ curStart - prevStart = rate_limit
    /\ curStart > prevEnd

\* ---- the dashboard
FullRuns == {i \in 1..Len(cycles) : cycles[i].fetch = "ok" /\ cycles[i].drawn = NCharts}
LastFull == CHOOSE i \in FullRuns : \A j \in FullRuns : j <= i

====
